---------------------------- MODULE Spec2Model ----------------------------
(***************************************************************************)
(* A model of the browser-resident Markdown editor (src/scripts/editor.ts, *)
(* src/scripts/utils.ts): the draft/remote reconciliation core, the        *)
(* content codec, the draft store and the editor session controller.       *)
(*                                                                         *)
(* Text is a sequence of tokens.  A token is a piece of text that the      *)
(* operations of the code never cut: a single character ("a", " ", ":",    *)
(* "'", "\n"), or a fixed word that only ever occurs whole (a metadata     *)
(* key, the front-matter delimiter "---", a date "2024-01-01", ".md").     *)
(* split, trim, startsWith, endsWith, replace and join are then computed   *)
(* token by token as the code computes them character by character.  No    *)
(* two adjacent tokens of a modelled text spell a separator across their   *)
(* border.                                                                 *)
(***************************************************************************)
EXTENDS Integers, Sequences, FiniteSets, TLC

(***************************************************************************)
(* String primitives (the JavaScript String methods the code calls).       *)
(***************************************************************************)

\* characters String.prototype.trim removes
IsWs(c) == c \in {" ", "\n"}

RECURSIVE FirstNonWs(_, _)
FirstNonWs(s, i) ==
  IF i > Len(s) THEN i ELSE IF IsWs(s[i]) THEN FirstNonWs(s, i + 1) ELSE i

RECURSIVE LastNonWs(_, _)
LastNonWs(s, i) ==
  IF i < 1 THEN i ELSE IF IsWs(s[i]) THEN LastNonWs(s, i - 1) ELSE i

\* s.trim()
Trim(s) == SubSeq(s, FirstNonWs(s, 1), LastNonWs(s, Len(s)))

StartsWith(s, p) == Len(s) >= Len(p) /\ \A j \in 1..Len(p) : s[j] = p[j]

EndsWith(s, p) == Len(s) >= Len(p) /\ \A j \in 1..Len(p) : s[Len(s) - Len(p) + j] = p[j]

\* p occurs in s at position i
MatchAt(s, p, i) == i + Len(p) - 1 <= Len(s) /\ \A j \in 1..Len(p) : s[i + j - 1] = p[j]

\* position of the first occurrence of p in s at or after i, 0 when there is none
RECURSIVE IndexFrom(_, _, _)
IndexFrom(s, p, i) ==
  IF i + Len(p) - 1 > Len(s) THEN 0
  ELSE IF MatchAt(s, p, i) THEN i ELSE IndexFrom(s, p, i + 1)

IndexOf(s, p) == IndexFrom(s, p, 1)

\* s.split(sep) for a non-empty separator
RECURSIVE SplitFrom(_, _, _)
SplitFrom(s, sep, start) ==
  LET i == IndexFrom(s, sep, start)
  IN IF i = 0 THEN <<SubSeq(s, start, Len(s))>>
     ELSE <<SubSeq(s, start, i - 1)>> \o SplitFrom(s, sep, i + Len(sep))

Split(s, sep) == SplitFrom(s, sep, 1)

\* parts.join(sep)
RECURSIVE Join(_, _)
Join(parts, sep) ==
  IF parts = <<>> THEN <<>>
  ELSE IF Len(parts) = 1 THEN parts[1]
  ELSE parts[1] \o sep \o Join(Tail(parts), sep)

\* parts.map((x) => x.trim())
RECURSIVE MapTrim(_)
MapTrim(parts) ==
  IF parts = <<>> THEN <<>> ELSE <<Trim(Head(parts))>> \o MapTrim(Tail(parts))

NonEmpty(x) == x # <<>>

(***************************************************************************)
(* Literals.                                                               *)
(***************************************************************************)
K_title == <<"title">>
K_published == <<"published">>
K_updated == <<"updated">>
K_description == <<"description">>
K_tags == <<"tags">>
K_category == <<"category">>

Delim == <<"---">>
NL == <<"\n">>
Colon == <<":">>
Comma == <<",">>
CommaSp == <<",", " ">>
ColonSp == <<":", " ">>
Quote == <<"'">>
NullWord == <<"null">>
\* what Date.prototype.toISOString appends to the day
IsoSuffix == <<"T00:00:00.000Z">>
\* the days the model knows
Dates == {"2024-01-01", "2024-01-02"}

(***************************************************************************)
(* YAML values as js-yaml hands them to the code: a string, a Date (an     *)
(* unquoted timestamp scalar), null (an empty scalar) or an array.         *)
(***************************************************************************)
Str(s) == [t |-> "str", s |-> s, a |-> <<>>]
DateV(s) == [t |-> "date", s |-> s, a |-> <<>>]
NullV == [t |-> "null", s |-> <<>>, a |-> <<>>]
Arr(a) == [t |-> "arr", s |-> <<>>, a |-> a]
Pair(k, v) == [k |-> k, v |-> v]

\* YYYY-MM-DD
IsDateLike(s) == Len(s) = 1 /\ s[1] \in Dates

\* whether js-yaml's dump must quote a string scalar
NeedsQuote(s) ==
  \/ s = <<>>
  \/ IsDateLike(s)
  \/ s = NullWord
  \/ Head(s) \in {"'", "[", "]", ",", " "}
  \/ s[Len(s)] \in {" ", ":"}
  \/ IndexOf(s, ColonSp) # 0

DumpString(s) == IF NeedsQuote(s) THEN Quote \o s \o Quote ELSE s

RECURSIVE DumpStrings(_)
DumpStrings(a) ==
  IF a = <<>> THEN <<>> ELSE <<DumpString(Head(a))>> \o DumpStrings(Tail(a))

DumpValue(v) ==
  CASE v.t = "str" -> DumpString(v.s)
    [] v.t = "date" -> v.s \o IsoSuffix
    [] v.t = "null" -> NullWord
    [] v.t = "arr" ->
         <<"[">> \o Join(DumpStrings(v.a), CommaSp) \o <<"]">>

\* jsyaml.dump(cleanMeta, {lineWidth: -1, flowLevel: 1}): one line per key
DumpPair(p) == p.k \o ColonSp \o DumpValue(p.v)

RECURSIVE DumpPairs(_)
DumpPairs(meta) ==
  IF meta = <<>> THEN <<>> ELSE <<DumpPair(Head(meta))>> \o DumpPairs(Tail(meta))

DumpYaml(meta) ==
  IF meta = <<>> THEN <<"{", "}">> \o NL
  ELSE Join(DumpPairs(meta), NL) \o NL

Unquote(s) ==
  IF Len(s) >= 2 /\ s[1] = "'" /\ s[Len(s)] = "'" THEN SubSeq(s, 2, Len(s) - 1) ELSE s

RECURSIVE UnquoteAll(_)
UnquoteAll(items) ==
  IF items = <<>> THEN <<>> ELSE <<Unquote(Head(items))>> \o UnquoteAll(Tail(items))

\* a plain, quoted or flow-sequence scalar as jsyaml.load resolves it
LoadValue(raw) ==
  LET r == Trim(raw)
  IN IF r = <<>> \/ r = NullWord THEN NullV
     ELSE IF Len(r) >= 2 /\ r[1] = "'" /\ r[Len(r)] = "'" THEN Str(SubSeq(r, 2, Len(r) - 1))
     ELSE IF r[1] = "[" /\ r[Len(r)] = "]" THEN
       LET inner == Trim(SubSeq(r, 2, Len(r) - 1))
       IN IF inner = <<>> THEN Arr(<<>>)
          ELSE Arr(UnquoteAll(MapTrim(Split(inner, Comma))))
     ELSE IF IsDateLike(r) THEN DateV(r)
     ELSE Str(r)

\* one "key: value" line of a block mapping
LoadLine(line) ==
  LET i == IndexOf(line, Colon)
  IN Pair(Trim(SubSeq(line, 1, i - 1)), LoadValue(SubSeq(line, i + 1, Len(line))))

\* a line is "key: value" or "key:" (the colon ends the line or a space follows)
IsMappingLine(line) ==
  LET i == IndexOf(line, Colon)
  IN i > 1 /\ (i = Len(line) \/ line[i + 1] = " ")

RECURSIVE LoadLines(_)
LoadLines(lines) ==
  IF lines = <<>> THEN <<>> ELSE <<LoadLine(Head(lines))>> \o LoadLines(Tail(lines))

\* a line that is not blank
NotBlank(line) == Trim(line) # <<>>

\* jsyaml.load(block): [ok |-> FALSE] stands for a thrown YAMLException;
\* a document that is empty or no mapping has no fields the code reads
LoadYaml(block) ==
  LET lines == SelectSeq(Split(block, NL), NotBlank)
      pairs == LoadLines(lines)
  IN IF \E i \in 1..Len(lines) : ~IsMappingLine(lines[i])
       THEN IF Len(lines) = 1 THEN [ok |-> TRUE, meta |-> <<>>]
            ELSE [ok |-> FALSE, meta |-> <<>>]
     ELSE IF \E i, j \in 1..Len(pairs) : i # j /\ pairs[i].k = pairs[j].k
       THEN [ok |-> FALSE, meta |-> <<>>]
     ELSE [ok |-> TRUE, meta |-> pairs]

(***************************************************************************)
(* Content codec (utils.ts).                                               *)
(***************************************************************************)
HasKey(meta, k) == \E i \in 1..Len(meta) : meta[i].k = k

\* metadata[k], NullV standing for undefined
Get(meta, k) ==
  IF HasKey(meta, k) THEN (CHOOSE p \in {meta[i] : i \in 1..Len(meta)} : p.k = k).v
  ELSE NullV

\* cleanMeta[k] = v: an existing key keeps its place, a new key is appended
RECURSIVE Put(_, _, _)
Put(meta, k, v) ==
  IF meta = <<>> THEN <<Pair(k, v)>>
  ELSE IF Head(meta).k = k THEN <<Pair(k, v)>> \o Tail(meta)
  ELSE <<Head(meta)>> \o Put(Tail(meta), k, v)

parseContent(content) ==
  LET parts == Split(content, Delim)
  IN IF Len(parts) < 3 THEN [metadata |-> <<>>, body |-> content]
     ELSE LET y == LoadYaml(parts[2])
          IN IF y.ok
               THEN [metadata |-> y.meta,
                     body |-> Trim(Join(SubSeq(parts, 3, Len(parts)), Delim))]
             ELSE [metadata |-> <<>>, body |-> content]

\* the tags normalisation of stringifyMetadata
NormalizeTags(v) ==
  IF v.t = "str"
    THEN Arr(SelectSeq(MapTrim(Split(v.s, Comma)), NonEmpty))
  ELSE IF v.t = "arr" THEN v
  ELSE Arr(<<>>)

\* s.replace(/'/g, "")
RECURSIVE RemoveQuotes(_)
RemoveQuotes(s) ==
  IF s = <<>> THEN <<>>
  ELSE IF Head(s) = "'" THEN RemoveQuotes(Tail(s))
  ELSE <<Head(s)>> \o RemoveQuotes(Tail(s))

\* the quote stripping of stringifyMetadata, per line
StripQuotes(line) ==
  IF \/ StartsWith(line, K_published \o Colon)
     \/ StartsWith(line, K_updated \o Colon)
     \/ StartsWith(line, K_tags \o Colon)
    THEN RemoveQuotes(line)
  ELSE line

RECURSIVE StripAll(_)
StripAll(lines) ==
  IF lines = <<>> THEN <<>> ELSE <<StripQuotes(Head(lines))>> \o StripAll(Tail(lines))

stringifyMetadata(metadata) ==
  LET cleanMeta == Put(metadata, K_tags, NormalizeTags(Get(metadata, K_tags)))
      lines == Split(DumpYaml(cleanMeta), NL)
      processedLines == StripAll(lines)
  IN Join(SelectSeq(processedLines, NonEmpty), NL)

createFullMarkdown(metadata, body) ==
  Delim \o NL \o stringifyMetadata(metadata) \o NL \o Delim \o NL \o NL \o body


(***************************************************************************)
(* Bounds of the model.                                                    *)
(***************************************************************************)
\* handlers suspended at an await at the same time
MaxPending == 2
\* user actions and timer ticks in one run
MaxSteps == 5

(***************************************************************************)
(* Inputs.                                                                 *)
(***************************************************************************)
PostsDir == <<"src", "/", "content", "/", "posts", "/">>
MdSuffix == <<".md">>
Slash == <<"/">>
Underscore == <<"_">>
DraftPrefix == <<"draft", "_">>

Date1 == <<"2024-01-01">>
\* new Date().toISOString().split("T")[0] on the day of the run
Today == <<"2024-01-02">>

PathA == PostsDir \o <<"a">> \o MdSuffix
PathB == PostsDir \o <<"b">> \o MdSuffix

\* a post written outside the editor: quoted dates, every key present
ContentA ==
  Delim \o NL \o K_title \o ColonSp \o <<"t">> \o NL
        \o K_published \o ColonSp \o Quote \o Date1 \o Quote \o NL
        \o K_updated \o ColonSp \o Quote \o Date1 \o Quote \o NL
        \o K_description \o ColonSp \o Quote \o Quote \o NL
        \o K_tags \o ColonSp \o <<"[","a","]">> \o NL
        \o K_category \o ColonSp \o Quote \o Quote \o NL
        \o Delim \o NL \o NL \o <<"x">>

\* a post with a minimal front matter and no published date
ContentB ==
  Delim \o NL \o K_title \o ColonSp \o <<"u">> \o NL \o Delim \o NL \o NL \o <<"y">> \o NL

\* what the user types into the body and the tags field
EditBodies == {<<"x">>, <<"x"," ">>, <<"z">>}
EditTags == {<<"a">>, <<"b",","," ","a">>}
\* what the user types into the new-file dialog
NewNames == {<<"N"," ","1">>, <<" ">>}
\* what the user types into the rename dialog
RenameNames == {<<" ">>, <<"a">>, <<"c">>}
\* what the user types into the login form
LoginUsers == {<<"o">>, <<>>}
LoginRepo == <<"r">>
LoginPat == <<"k">>

(***************************************************************************)
(* The codec over the documents of the model.  The field values an editor  *)
(* of the model can hold are the values of the two posts, the template of  *)
(* a new file and the inputs above; parseContent and createFullMarkdown    *)
(* are tabulated over them, so that each is computed once per document.    *)
(***************************************************************************)
Titles == {<<>>, <<"t">>, <<"u">>} \cup {Trim(n) : n \in NewNames}
DateInputs == {<<>>, Date1, Today}
TagInputs == {<<>>, <<"a">>} \cup EditTags
Bodies == {<<>>, <<"x">>, <<"y">>} \cup EditBodies

\* a document: what parseContent returns and what a draft record holds
Document(metadata, body) == [metadata |-> metadata, body |-> body]

\* the six fields as getEditorMetadata reads them from the inputs: all strings
FieldMetadata(title, published, updated, description, tags, category) ==
  << Pair(K_title, Str(title)), Pair(K_published, Str(published)),
     Pair(K_updated, Str(updated)), Pair(K_description, Str(description)),
     Pair(K_tags, Str(tags)), Pair(K_category, Str(category)) >>

EditorDocuments ==
  {Document(FieldMetadata(t, p, u, <<>>, g, <<>>), b) :
     t \in Titles, p \in DateInputs, u \in DateInputs, g \in TagInputs, b \in Bodies}

Contents ==
  {ContentA, ContentB} \cup {createFullMarkdown(d.metadata, d.body) : d \in EditorDocuments}

\* parseContent, tabulated
parsed == [c \in Contents |-> parseContent(c)] @@ <<>>

Documents == EditorDocuments \cup {parsed[c] : c \in Contents}

\* createFullMarkdown, tabulated
fullMarkdown == [d \in Documents |-> createFullMarkdown(d.metadata, d.body)] @@ <<>>

(***************************************************************************)
(* Draft store (utils.ts).                                                 *)
(***************************************************************************)
NoPath == <<>>
NoSha == <<>>

getDraftKey(u, r, path) ==
  IF path = NoPath THEN <<>>
  ELSE DraftPrefix \o u \o Underscore \o r \o Underscore \o path

HasItem(ls, key) == key \in DOMAIN ls

\* localStorage.setItem
SetItem(ls, key, value) == [k \in DOMAIN ls \cup {key} |-> IF k = key THEN value ELSE ls[k]]

\* localStorage.removeItem
RemoveItem(ls, key) == [k \in DOMAIN ls \ {key} |-> ls[k]]

\* the stored record; savedAt is a wall-clock stamp no decision reads
Draft(metadata, body) == Document(metadata, body)

\* quota = FALSE: localStorage.setItem throws, rethrown as an Error
saveDraftToStorage(ls, u, r, path, metadata, body, quota) ==
  LET key == getDraftKey(u, r, path)
  IN IF key = <<>> THEN [ls |-> ls, threw |-> FALSE]
     ELSE IF quota THEN [ls |-> SetItem(ls, key, Draft(metadata, body)), threw |-> FALSE]
     ELSE [ls |-> ls, threw |-> TRUE]

clearDraftFromStorage(ls, u, r, path) ==
  LET key == getDraftKey(u, r, path)
  IN IF key # <<>> THEN RemoveItem(ls, key) ELSE ls

\* a stored string that JSON.parse rejects (a record cut short); no editor
\* holds its body
Corrupted == Draft(<<>>, <<"{">>)

\* found: a draft is returned (the entry under the key); threw: the entry did
\* not parse, was removed, and an Error is thrown
loadDraftFromStorage(ls, u, r, path) ==
  LET key == getDraftKey(u, r, path)
  IN IF key = <<>> \/ ~HasItem(ls, key) THEN [ls |-> ls, found |-> FALSE, threw |-> FALSE]
     ELSE IF ls[key] = Corrupted
       THEN [ls |-> RemoveItem(ls, key), found |-> FALSE, threw |-> TRUE]
     ELSE [ls |-> ls, found |-> TRUE, threw |-> FALSE]

(***************************************************************************)
(* Editor helpers (editor.ts).                                             *)
(***************************************************************************)
EmptyEditor ==
  [title |-> <<>>, published |-> <<>>, updated |-> <<>>, description |-> <<>>,
   tags |-> <<>>, category |-> <<>>, body |-> <<>>]

NoFile == [path |-> NoPath, sha |-> NoSha, isNew |-> FALSE]

getEditorMetadata(ed) ==
  FieldMetadata(ed.title, ed.published, ed.updated, ed.description, ed.tags, ed.category)

\* JavaScript truthiness of a metadata value
Truthy(v) == v.t \in {"date", "arr"} \/ (v.t = "str" /\ v.s # <<>>)

\* metadata.x || ""
OrEmpty(v) == IF v.t = "str" THEN v.s ELSE <<>>

\* new Date(v).toISOString().split("T")[0] for a truthy v, "" otherwise
\* (an unparsable date string would throw; the modelled files hold none)
DateField(v) ==
  IF v.t = "date" THEN v.s
  ELSE IF v.t = "str" /\ IsDateLike(v.s) THEN v.s
  ELSE <<>>

\* the field values populateEditor writes; assigning .value and calling
\* setValue raise no input event, so isDirty is not touched
populateEditor(metadata, body) ==
  [title |-> OrEmpty(Get(metadata, K_title)),
   published |-> DateField(Get(metadata, K_published)),
   updated |-> DateField(Get(metadata, K_updated)),
   description |-> OrEmpty(Get(metadata, K_description)),
   tags |-> IF Get(metadata, K_tags).t = "arr"
              THEN Join(Get(metadata, K_tags).a, CommaSp)
            ELSE OrEmpty(Get(metadata, K_tags)),
   category |-> OrEmpty(Get(metadata, K_category)),
   body |-> body]

setTodaysDate(ed) == [ed EXCEPT !.published = Today, !.updated = Today]

markAsDirty(dirty, path) == IF ~dirty /\ path # NoPath THEN TRUE ELSE dirty

markAsClean == FALSE

\* the blob hash the remote returns for a content: a function of the content alone
blobSha(content) == <<"#">> \o content

LowerCase(c) == IF c = "N" THEN "n" ELSE c

LowerLetters ==
  {"a","b","c","d","e","f","g","h","i","j","k","l","m",
   "n","o","p","q","r","s","t","u","v","w","x","y","z"}

Digits == {"0","1","2","3","4","5","6","7","8","9"}

\* what .replace(/[^a-z0-9-.]/g, "") keeps
Kept(c) == c \in LowerLetters \cup Digits \cup {"-", ".", ".md"}

\* s.toLowerCase().replace(/\s+/g, "-"): the modelled inputs hold no run of
\* two blanks
RECURSIVE Dashed(_)
Dashed(s) ==
  IF s = <<>> THEN <<>>
  ELSE <<IF IsWs(Head(s)) THEN "-" ELSE LowerCase(Head(s))>> \o Dashed(Tail(s))

normalizeFilename(name) ==
  LET kept == SelectSeq(Dashed(Trim(name)), Kept)
  IN IF EndsWith(kept, MdSuffix) THEN kept ELSE kept \o MdSuffix

(***************************************************************************)
(* State.                                                                  *)
(***************************************************************************)
VARIABLES
  user, repo, pat,   \* state.user, state.repo, state.pat
  currentFile,       \* state.currentFile: [path, sha, isNew]
  isDirty,           \* the module-level dirty flag
  editor,            \* the metadata inputs and the editing widget's value
  view,              \* "login" or "main": the view shown; "rename": the main view
                     \* under the rename dialog, whose backdrop takes the clicks;
                     \* "closed": the page is gone
  localStorage,      \* the draft records, by storage key
  loginData,         \* the record under "github_editor_data"
  remote,            \* the repository: path -> content
  fileList,          \* the paths rendered in the file list
  pending,           \* handlers suspended at an await
  steps,             \* user actions and timer ticks so far
  origin,            \* history: the path of the file whose document the editor holds
  ev                 \* what the last step did and showed

vars ==
  <<user, repo, pat, currentFile, isDirty, editor, view, localStorage, loginData,
    remote, fileList, pending, steps, origin, ev>>

NoLogin == [user |-> <<>>, repo |-> <<>>, pat |-> <<>>]

\* a suspended handler: what it captured before the await
Op(kind, path, content, sha) ==
  [kind |-> kind, path |-> path, content |-> content, sha |-> sha, to |-> <<>>]

\* a suspended handleRenameConfirm: oldPath, newPath and newContent of renameFileAction
RenameOp(kind, oldPath, newPath, newContent, sha) ==
  [kind |-> kind, path |-> oldPath, content |-> newContent, sha |-> sha, to |-> newPath]

\* op: the handler that ran; path: the path it was about; notice/error: the
\* status line it left; prompts/answer: the confirm() dialogs it raised;
\* call: the remote request it issued
Ev(op, path, notice, error, prompts, answer, call) ==
  [op |-> op, path |-> path, notice |-> notice, error |-> error,
   prompts |-> prompts, answer |-> answer, call |-> call]

Quiet(op, path) == Ev(op, path, "none", FALSE, 0, "none", "none")

\* the listing getFiles returns, as renderFileList keeps it
Listing(rem) == {p \in DOMAIN rem : EndsWith(p, MdSuffix)}

resetEditorState == NoFile

(***************************************************************************)
(* saveDraft and loadDraft (editor.ts).                                    *)
(***************************************************************************)
\* a saveDraft that stores the draft and forgets markAsClean
saveDraftKeepsDirty(ls, u, r, file, dirty, ed, quota) ==
  IF file.path = NoPath \/ ~dirty
    THEN [ls |-> ls, dirty |-> dirty, notice |-> "none", error |-> FALSE]
  ELSE LET w == saveDraftToStorage(ls, u, r, file.path, getEditorMetadata(ed), ed.body, quota)
       IN IF w.threw
            THEN [ls |-> ls, dirty |-> dirty, notice |-> "draftFailed", error |-> TRUE]
          ELSE [ls |-> w.ls, dirty |-> dirty, notice |-> "draftSaved", error |-> FALSE]

\* a saveDraft that takes a failed write for a stored draft
saveDraftHidesFailure(ls, u, r, file, dirty, ed, quota) ==
  IF file.path = NoPath \/ ~dirty
    THEN [ls |-> ls, dirty |-> dirty, notice |-> "none", error |-> FALSE]
  ELSE LET w == saveDraftToStorage(ls, u, r, file.path, getEditorMetadata(ed), ed.body, quota)
       IN [ls |-> w.ls, dirty |-> markAsClean, notice |-> "draftSaved", error |-> FALSE]

\* a saveDraft that does not look at the dirty flag
saveDraftAlways(ls, u, r, file, dirty, ed, quota) ==
  IF file.path = NoPath
    THEN [ls |-> ls, dirty |-> dirty, notice |-> "none", error |-> FALSE]
  ELSE LET w == saveDraftToStorage(ls, u, r, file.path, getEditorMetadata(ed), ed.body, quota)
       IN IF w.threw
            THEN [ls |-> ls, dirty |-> dirty, notice |-> "draftFailed", error |-> TRUE]
          ELSE [ls |-> w.ls, dirty |-> markAsClean, notice |-> "draftSaved", error |-> FALSE]

saveDraft(ls, u, r, file, dirty, ed, quota) ==
  IF file.path = NoPath \/ ~dirty
    THEN [ls |-> ls, dirty |-> dirty, notice |-> "none", error |-> FALSE]
  ELSE LET w == saveDraftToStorage(ls, u, r, file.path, getEditorMetadata(ed), ed.body, quota)
       IN IF w.threw
            THEN [ls |-> ls, dirty |-> dirty, notice |-> "draftFailed", error |-> TRUE]
          ELSE [ls |-> w.ls, dirty |-> markAsClean, notice |-> "draftSaved", error |-> FALSE]

\* ed, dirty: the editor and the flag as handleFileClick left them
loadDraft(ls, u, r, path, original, ed, dirty, accept) ==
  LET key == getDraftKey(u, r, path)
      l == loadDraftFromStorage(ls, u, r, path)
      same == [ls |-> ls, editor |-> ed, dirty |-> dirty, notice |-> "none",
               error |-> FALSE, prompts |-> 0, answer |-> "none"]
  IN IF l.threw THEN [same EXCEPT !.ls = l.ls, !.notice = "draftCorrupted", !.error = TRUE]
     ELSE IF ~l.found THEN same
     ELSE LET draft == ls[key]
              originalFull == fullMarkdown[Document(original.metadata, original.body)]
              draftFull == fullMarkdown[Document(draft.metadata, draft.body)]
          IN IF Trim(originalFull) = Trim(draftFull)
               THEN [same EXCEPT !.ls = clearDraftFromStorage(ls, u, r, path)]
             ELSE IF accept
               THEN [same EXCEPT !.editor = populateEditor(draft.metadata, draft.body),
                                 !.notice = "draftLoaded", !.prompts = 1, !.answer = "yes"]
             ELSE [same EXCEPT !.ls = clearDraftFromStorage(ls, u, r, path),
                               !.prompts = 1, !.answer = "no"]

(***************************************************************************)
(* The state after initializeApp on a browser with nothing stored.         *)
(***************************************************************************)
Init ==
  /\ user = <<>> /\ repo = <<>> /\ pat = <<>>
  /\ currentFile = NoFile
  /\ isDirty = FALSE
  /\ editor = EmptyEditor
  /\ view = "login"
  /\ localStorage = [k \in {} |-> Draft(<<>>, <<>>)]
  /\ loginData = NoLogin
  /\ remote = [p \in {PathA, PathB} |-> IF p = PathA THEN ContentA ELSE ContentB]
  /\ fileList = {}
  /\ pending = {}
  /\ steps = 0
  /\ origin = NoPath
  /\ ev = Quiet("init", NoPath)

\* the state after initializeApp on a browser whose storage holds, under the
\* key of the draft of b.md, an entry that does not parse
InitCorrupted ==
  /\ user = <<>> /\ repo = <<>> /\ pat = <<>>
  /\ currentFile = NoFile
  /\ isDirty = FALSE
  /\ editor = EmptyEditor
  /\ view = "login"
  /\ \E u \in LoginUsers \ {<<>>} :
       localStorage = [k \in {getDraftKey(Trim(u), Trim(LoginRepo), PathB)} |-> Corrupted]
  /\ loginData = NoLogin
  /\ remote = [p \in {PathA, PathB} |-> IF p = PathA THEN ContentA ELSE ContentB]
  /\ fileList = {}
  /\ pending = {}
  /\ steps = 0
  /\ origin = NoPath
  /\ ev = Quiet("init", NoPath)

\* the state after initializeApp on a browser that holds the session record of
\* user o on repository r, for a page address with slug=a: login() and
\* loadFileBySlug have run, a.md is shown, no draft is stored
InitOpened ==
  LET originalContent == parsed[ContentA]
      shown == populateEditor(originalContent.metadata, originalContent.body)
      dated == IF ~Truthy(Get(originalContent.metadata, K_published))
                 THEN setTodaysDate(shown) ELSE shown
  IN /\ user = <<"o">> /\ repo = Trim(LoginRepo) /\ pat = Trim(LoginPat)
     /\ currentFile = [path |-> PathA, sha |-> blobSha(ContentA), isNew |-> FALSE]
     /\ isDirty = markAsClean
     /\ editor = dated
     /\ view = "main"
     /\ localStorage = [k \in {} |-> Draft(<<>>, <<>>)]
     /\ loginData = [user |-> user, repo |-> repo, pat |-> pat]
     /\ remote = [p \in {PathA, PathB} |-> IF p = PathA THEN ContentA ELSE ContentB]
     /\ fileList = Listing(remote)
     /\ pending = {}
     /\ steps = 0
     /\ origin = PathA
     /\ ev = Ev("openDone", PathA, "none", FALSE, 0, "none", "none")

Room == Cardinality(pending) < MaxPending

\* the page is loaded
Loaded == view # "closed"

\* one more user action or timer tick
Step == steps < MaxSteps /\ steps' = steps + 1

(***************************************************************************)
(* Login and logout.                                                       *)
(***************************************************************************)
\* login(), to its await of getFiles
login(u) ==
  /\ view = "login"
  /\ user' = Trim(u) /\ repo' = Trim(LoginRepo) /\ pat' = Trim(LoginPat)
  /\ IF Trim(u) = <<>> \/ Trim(LoginRepo) = <<>> \/ Trim(LoginPat) = <<>>
       THEN /\ ev' = Ev("login", NoPath, "loginError", TRUE, 0, "none", "none")
            /\ UNCHANGED pending
     ELSE /\ Room
          /\ pending' = pending \cup {Op("login", NoPath, <<>>, NoSha)}
          /\ ev' = Ev("login", NoPath, "none", FALSE, 0, "none", "list")
  /\ UNCHANGED <<currentFile, isDirty, editor, view, localStorage, loginData,
                 remote, fileList>>
  /\ UNCHANGED origin
  /\ Step

\* a login() that stores the record and shows the main view whatever getFiles
\* answered
loginDoneUnprobed(op, ok) ==
  /\ Loaded /\ op \in pending /\ op.kind = "login"
  /\ pending' = pending \ {op}
  /\ loginData' = [user |-> user, repo |-> repo, pat |-> pat]
  /\ view' = "main"
  /\ fileList' = IF ok THEN Listing(remote) ELSE fileList
  /\ ev' = IF ok THEN Quiet("loginDone", NoPath)
           ELSE Ev("loginDone", NoPath, "loginError", TRUE, 0, "none", "none")
  /\ UNCHANGED <<user, repo, pat, currentFile, isDirty, editor, localStorage,
                 remote, steps, origin>>

\* login() after getFiles answered
loginDone(op, ok) ==
  /\ Loaded /\ op \in pending /\ op.kind = "login"
  /\ pending' = pending \ {op}
  /\ IF ok
       THEN /\ loginData' = [user |-> user, repo |-> repo, pat |-> pat]
            /\ view' = "main"
            /\ fileList' = Listing(remote)
            /\ ev' = Quiet("loginDone", NoPath)
     ELSE /\ ev' = Ev("loginDone", NoPath, "loginError", TRUE, 0, "none", "none")
          /\ UNCHANGED <<loginData, view, fileList>>
  /\ UNCHANGED <<user, repo, pat, currentFile, isDirty, editor, localStorage,
                 remote, steps, origin>>

logout ==
  /\ view = "main"
  /\ loginData' = NoLogin
  /\ user' = <<>> /\ repo' = <<>> /\ pat' = <<>>
  /\ currentFile' = resetEditorState
  /\ view' = "login"
  /\ ev' = Quiet("logout", NoPath)
  /\ UNCHANGED <<isDirty, editor, localStorage, remote, fileList, pending>>
  /\ UNCHANGED origin
  /\ Step

(***************************************************************************)
(* The flush timer, edits, page unload.                                    *)
(***************************************************************************)
\* setInterval(saveDraft, 5000)
tick(quota) ==
  LET d == saveDraft(localStorage, user, repo, currentFile, isDirty, editor, quota)
  IN /\ Loaded
     /\ localStorage' = d.ls
     /\ isDirty' = d.dirty
     /\ ev' = Ev("tick", currentFile.path, d.notice, d.error, 0, "none", "none")
     /\ UNCHANGED <<user, repo, pat, currentFile, editor, view, loginData, remote,
                    fileList, pending>>
     /\ UNCHANGED origin
     /\ Step

\* an input event of the editing widget
editBody(b) ==
  /\ view = "main" /\ currentFile.path # NoPath
  /\ b # editor.body
  /\ editor' = [editor EXCEPT !.body = b]
  /\ isDirty' = markAsDirty(isDirty, currentFile.path)
  /\ ev' = Quiet("edit", currentFile.path)
  /\ UNCHANGED <<user, repo, pat, currentFile, view, localStorage, loginData, remote,
                 fileList, pending>>
  /\ UNCHANGED origin
  /\ Step

\* an input event of a metadata field
editTags(t) ==
  /\ view = "main" /\ currentFile.path # NoPath
  /\ t # editor.tags
  /\ editor' = [editor EXCEPT !.tags = t]
  /\ isDirty' = markAsDirty(isDirty, currentFile.path)
  /\ ev' = Quiet("edit", currentFile.path)
  /\ UNCHANGED <<user, repo, pat, currentFile, view, localStorage, loginData, remote,
                 fileList, pending>>
  /\ UNCHANGED origin
  /\ Step

\* beforeunload runs saveDraft; the page is then gone: its timer and the
\* handlers suspended at an await run no more
unload(quota) ==
  LET d == saveDraft(localStorage, user, repo, currentFile, isDirty, editor, quota)
  IN /\ Loaded
     /\ localStorage' = d.ls
     /\ isDirty' = d.dirty
     /\ view' = "closed"
     /\ ev' = Ev("unload", currentFile.path, d.notice, d.error, 0, "none", "none")
     /\ UNCHANGED <<user, repo, pat, currentFile, editor, loginData, remote,
                    fileList, pending>>
     /\ UNCHANGED origin
     /\ Step

(***************************************************************************)
(* Open.                                                                   *)
(***************************************************************************)
\* handleFileClick, to its await of getFileContent
handleFileClick(p, quota) ==
  LET d == saveDraft(localStorage, user, repo, currentFile, isDirty, editor, quota)
  IN /\ view = "main" /\ p \in fileList
     /\ Room
     /\ localStorage' = d.ls
     /\ isDirty' = d.dirty
     /\ currentFile' = [currentFile EXCEPT !.path = p]
     /\ pending' = pending \cup {Op("open", p, <<>>, NoSha)}
     /\ ev' = Ev("click", p, d.notice, d.error, 0, "none", "read")
     /\ UNCHANGED <<user, repo, pat, editor, view, loginData, remote, fileList>>
     /\ UNCHANGED origin
     /\ Step

\* handleFileClick after getFileContent answered; ok = FALSE: a transport error
openDone(op, ok, accept) ==
  /\ Loaded /\ op \in pending /\ op.kind = "open"
  /\ pending' = pending \ {op}
  /\ IF ok /\ op.path \in DOMAIN remote
       THEN LET content == remote[op.path]
                originalContent == parsed[content]
                shown == populateEditor(originalContent.metadata, originalContent.body)
                dated == IF ~Truthy(Get(originalContent.metadata, K_published))
                           THEN setTodaysDate(shown) ELSE shown
                ld == loadDraft(localStorage, user, repo, currentFile.path,
                                originalContent, dated, markAsClean, accept)
            IN /\ currentFile' = [currentFile EXCEPT !.sha = blobSha(content), !.isNew = FALSE]
               /\ editor' = ld.editor
               /\ isDirty' = ld.dirty
               /\ localStorage' = ld.ls
               /\ origin' = IF ld.answer = "yes" THEN currentFile.path ELSE op.path
               /\ ev' = Ev("openDone", op.path, ld.notice, ld.error, ld.prompts, ld.answer,
                           "none")
     ELSE /\ currentFile' = resetEditorState
          /\ ev' = Ev("openDone", op.path, "loadFailed", TRUE, 0, "none", "none")
          /\ UNCHANGED <<editor, isDirty, localStorage, origin>>
  /\ UNCHANGED <<user, repo, pat, view, loginData, remote, fileList, steps>>

(***************************************************************************)
(* Create, Save, Delete.                                                   *)
(***************************************************************************)
templateMeta(filenameInput) ==
  << Pair(K_title, Str(filenameInput)), Pair(K_category, Str(<<>>)),
     Pair(K_tags, Arr(<<>>)), Pair(K_description, Str(<<>>)) >>

handleCreateNewFile(n) ==
  /\ view = "main"
  /\ IF Trim(n) = <<>>
       THEN /\ ev' = Ev("create", NoPath, "emptyName", TRUE, 0, "none", "none")
            /\ UNCHANGED <<currentFile, editor, isDirty, origin>>
     ELSE LET path == PostsDir \o normalizeFilename(Trim(n))
          IN /\ currentFile' = [path |-> path, sha |-> NoSha, isNew |-> TRUE]
             /\ editor' = setTodaysDate(populateEditor(templateMeta(Trim(n)), <<>>))
             /\ isDirty' = markAsDirty(isDirty, path)
             /\ origin' = path
             /\ ev' = Quiet("create", path)
  /\ UNCHANGED <<user, repo, pat, view, localStorage, loginData, remote, fileList,
                 pending>>
  /\ Step

\* a handleSave without the check of the version token
saveCallUnchecked(file) == IF file.isNew THEN "create" ELSE "update"

\* the remote request handleSave issues for a file; "none": it throws before any
saveCall(file) ==
  IF file.isNew THEN "create"
  ELSE IF file.sha = NoSha THEN "none"
  ELSE "update"

\* handleSave, to its await of createFile or updateFile
handleSave ==
  /\ view = "main"
  /\ IF currentFile.path = NoPath
       THEN /\ ev' = Ev("save", NoPath, "noFile", TRUE, 0, "none", "none")
            /\ UNCHANGED pending
     ELSE LET newContent == fullMarkdown[Document(getEditorMetadata(editor), editor.body)]
              call == saveCall(currentFile)
          IN IF call = "none"
               THEN /\ ev' = Ev("save", currentFile.path, "saveFailed", TRUE, 0, "none", "none")
                    /\ UNCHANGED pending
             ELSE /\ Room
                  /\ pending' = pending \cup
                       {Op(call, currentFile.path, newContent,
                           IF call = "create" THEN NoSha ELSE currentFile.sha)}
                  /\ ev' = Ev("save", currentFile.path, "none", FALSE, 0, "none", call)
  /\ UNCHANGED <<user, repo, pat, currentFile, isDirty, editor, view, localStorage,
                 loginData, remote, fileList>>
  /\ UNCHANGED origin
  /\ Step

\* the lines of handleSave that follow a successful remote write
saveSucceeded(file, ls, u, r, sha) ==
  [file |-> [file EXCEPT !.sha = sha, !.isNew = FALSE],
   ls |-> clearDraftFromStorage(ls, u, r, file.path),
   dirty |-> markAsClean]

\* createFile answered: the remote refuses a path that exists
createDone(op, ok) ==
  /\ Loaded /\ op \in pending /\ op.kind = "create"
  /\ IF ok /\ op.path \notin DOMAIN remote
       THEN /\ remote' = [p \in DOMAIN remote \cup {op.path} |->
                            IF p = op.path THEN op.content ELSE remote[p]]
            /\ pending' = (pending \ {op}) \cup
                            {Op("saveRefresh", op.path, op.content, blobSha(op.content))}
            /\ ev' = Ev("createDone", op.path, "none", FALSE, 0, "none", "list")
     ELSE /\ pending' = pending \ {op}
          /\ ev' = Ev("createDone", op.path, "saveFailed", TRUE, 0, "none", "none")
          /\ UNCHANGED remote
  /\ UNCHANGED <<user, repo, pat, currentFile, isDirty, editor, view, localStorage,
                 loginData, fileList, steps, origin>>

\* handleSave of a new file after refreshFileList returned (it never throws)
saveRefreshDone(op, ok) ==
  LET done == saveSucceeded(currentFile, localStorage, user, repo, op.sha)
  IN /\ Loaded /\ op \in pending /\ op.kind = "saveRefresh"
     /\ pending' = pending \ {op}
     /\ fileList' = IF ok THEN Listing(remote) ELSE fileList
     /\ currentFile' = done.file
     /\ localStorage' = done.ls
     /\ isDirty' = done.dirty
     /\ ev' = Ev("saveDone", op.path, "saveOk", FALSE, 0, "none", "none")
     /\ UNCHANGED <<user, repo, pat, editor, view, loginData, remote, steps, origin>>

\* a handleSave whose clearDraft and markAsClean sit in the finally block: they
\* run when updateFile failed, too
updateDoneFinally(op, ok) ==
  /\ Loaded /\ op \in pending /\ op.kind = "update"
  /\ pending' = pending \ {op}
  /\ IF ok /\ op.path \in DOMAIN remote /\ blobSha(remote[op.path]) = op.sha
       THEN LET done == saveSucceeded(currentFile, localStorage, user, repo,
                                      blobSha(op.content))
            IN /\ remote' = [remote EXCEPT ![op.path] = op.content]
               /\ currentFile' = done.file
               /\ localStorage' = done.ls
               /\ isDirty' = done.dirty
               /\ ev' = Ev("saveDone", op.path, "saveOk", FALSE, 0, "none", "none")
     ELSE /\ ev' = Ev("saveDone", op.path, "saveFailed", TRUE, 0, "none", "none")
          /\ localStorage' = clearDraftFromStorage(localStorage, user, repo, currentFile.path)
          /\ isDirty' = markAsClean
          /\ UNCHANGED <<remote, currentFile>>
  /\ UNCHANGED <<user, repo, pat, editor, view, loginData, fileList, steps, origin>>

\* updateFile answered: the remote refuses a stale or missing version token
updateDone(op, ok) ==
  /\ Loaded /\ op \in pending /\ op.kind = "update"
  /\ pending' = pending \ {op}
  /\ IF ok /\ op.path \in DOMAIN remote /\ blobSha(remote[op.path]) = op.sha
       THEN LET done == saveSucceeded(currentFile, localStorage, user, repo,
                                      blobSha(op.content))
            IN /\ remote' = [remote EXCEPT ![op.path] = op.content]
               /\ currentFile' = done.file
               /\ localStorage' = done.ls
               /\ isDirty' = done.dirty
               /\ ev' = Ev("saveDone", op.path, "saveOk", FALSE, 0, "none", "none")
     ELSE /\ ev' = Ev("saveDone", op.path, "saveFailed", TRUE, 0, "none", "none")
          /\ UNCHANGED <<remote, currentFile, localStorage, isDirty>>
  /\ UNCHANGED <<user, repo, pat, editor, view, loginData, fileList, steps, origin>>

\* a confirmAndDeleteFile that does not ask
deleteCallUnconfirmed(file, confirmed) ==
  IF file.isNew THEN "cancel"
  ELSE IF file.sha = NoSha THEN "noToken"
  ELSE "delete"

\* what confirmAndDeleteFile does with the active file: "cancel" the new file,
\* return when the user "declined", throw on "noToken", or issue the "delete"
deleteCall(file, confirmed) ==
  IF file.isNew THEN "cancel"
  ELSE IF ~confirmed THEN "declined"
  ELSE IF file.sha = NoSha THEN "noToken"
  ELSE "delete"

\* handleDeleteButtonClick and confirmAndDeleteFile, to the await of deleteFile
handleDeleteButtonClick(confirmed) ==
  LET call == deleteCall(currentFile, confirmed)
      answer == IF confirmed THEN "yes" ELSE "no"
  IN /\ view = "main"
     /\ IF currentFile.path = NoPath
          THEN /\ ev' = Ev("delete", NoPath, "noFile", TRUE, 0, "none", "none")
               /\ UNCHANGED <<currentFile, pending>>
        ELSE IF call = "cancel"
          THEN /\ currentFile' = resetEditorState
               /\ ev' = Ev("delete", currentFile.path, "newCancelled", FALSE, 0, "none", "none")
               /\ UNCHANGED pending
        ELSE IF call = "declined"
          THEN /\ ev' = Ev("delete", currentFile.path, "none", FALSE, 1, answer, "none")
               /\ UNCHANGED <<currentFile, pending>>
        ELSE IF call = "noToken"
          THEN /\ ev' = Ev("delete", currentFile.path, "deleteFailed", TRUE, 1, answer, "none")
               /\ UNCHANGED <<currentFile, pending>>
        ELSE /\ Room
             /\ pending' = pending \cup {Op("delete", currentFile.path, <<>>, currentFile.sha)}
             /\ ev' = Ev("delete", currentFile.path, "none", FALSE, 1, answer, "delete")
             /\ UNCHANGED currentFile
     /\ UNCHANGED <<user, repo, pat, isDirty, editor, view, localStorage, loginData,
                    remote, fileList>>
     /\ UNCHANGED origin
     /\ Step

\* deleteFile answered
deleteDone(op, ok) ==
  /\ Loaded /\ op \in pending /\ op.kind = "delete"
  /\ IF ok /\ op.path \in DOMAIN remote /\ blobSha(remote[op.path]) = op.sha
       THEN /\ remote' = [p \in DOMAIN remote \ {op.path} |-> remote[p]]
            /\ localStorage' = clearDraftFromStorage(localStorage, user, repo, op.path)
            /\ currentFile' = IF currentFile.path = op.path THEN resetEditorState
                              ELSE currentFile
            /\ pending' = (pending \ {op}) \cup {Op("deleteRefresh", op.path, <<>>, NoSha)}
            /\ ev' = Ev("deleteDone", op.path, "deleteOk", FALSE, 0, "none", "list")
     ELSE /\ pending' = pending \ {op}
          /\ ev' = Ev("deleteDone", op.path, "deleteFailed", TRUE, 0, "none", "none")
          /\ UNCHANGED <<remote, localStorage, currentFile>>
  /\ UNCHANGED <<user, repo, pat, isDirty, editor, view, loginData, fileList, steps, origin>>

\* refreshFileList after a delete
deleteRefreshDone(op, ok) ==
  /\ Loaded /\ op \in pending /\ op.kind = "deleteRefresh"
  /\ pending' = pending \ {op}
  /\ IF ok
       THEN /\ fileList' = Listing(remote)
            /\ ev' = Quiet("refreshDone", op.path)
     ELSE /\ ev' = Ev("refreshDone", op.path, "listFailed", TRUE, 0, "none", "none")
          /\ UNCHANGED fileList
  /\ UNCHANGED <<user, repo, pat, currentFile, isDirty, editor, view, localStorage,
                 loginData, remote, steps, origin>>

(***************************************************************************)
(* Rename.                                                                 *)
(***************************************************************************)
\* path.split("/").pop()
Basename(path) == Split(path, Slash)[Len(Split(path, Slash))]

\* handleRenameClick: the dialog opens for an existing file only
handleRenameClick ==
  /\ view = "main"
  /\ IF currentFile.path = NoPath \/ currentFile.isNew
       THEN /\ ev' = Ev("renameClick", currentFile.path, "renameNeedsFile", TRUE, 0, "none", "none")
            /\ UNCHANGED view
     ELSE /\ view' = "rename"
          /\ ev' = Quiet("renameClick", currentFile.path)
  /\ UNCHANGED <<user, repo, pat, currentFile, isDirty, editor, localStorage, loginData,
                 remote, fileList, pending>>
  /\ UNCHANGED origin
  /\ Step

\* the cancel button and the backdrop of the rename dialog
renameCancel ==
  /\ view = "rename"
  /\ view' = "main"
  /\ ev' = Quiet("renameCancel", currentFile.path)
  /\ UNCHANGED <<user, repo, pat, currentFile, isDirty, editor, localStorage, loginData,
                 remote, fileList, pending>>
  /\ UNCHANGED origin
  /\ Step

\* a handleRenameConfirm that does not compare the new name with the old one
renameCallUnchecked(file, newNameInput) ==
  IF newNameInput = <<>> THEN "emptyName"
  ELSE IF file.path = NoPath THEN "noFile"
  ELSE IF file.sha = NoSha THEN "noToken"
  ELSE "rename"

\* what handleRenameConfirm and renameFileAction do with the trimmed input:
\* reject it ("emptyName", "unchanged"), return ("noFile"), throw before any
\* request ("noToken"), or start the "rename"
renameCall(file, newNameInput) ==
  IF newNameInput = <<>> THEN "emptyName"
  ELSE IF file.path = NoPath THEN "noFile"
  ELSE IF Basename(file.path) = normalizeFilename(newNameInput) THEN "unchanged"
  ELSE IF file.sha = NoSha THEN "noToken"
  ELSE "rename"

\* handleRenameConfirm and renameFileAction, to the await of deleteFile
handleRenameConfirm(n) ==
  LET newNameInput == Trim(n)
      call == renameCall(currentFile, newNameInput)
      oldPath == currentFile.path
      newPath == PostsDir \o normalizeFilename(newNameInput)
      newContent == fullMarkdown[Document(getEditorMetadata(editor), editor.body)]
  IN /\ view = "rename"
     /\ IF call = "emptyName"
          THEN /\ ev' = Ev("rename", NoPath, "emptyName", TRUE, 0, "none", "none")
               /\ UNCHANGED pending
        ELSE IF call = "noFile"
          THEN /\ ev' = Quiet("rename", newPath)
               /\ UNCHANGED pending
        ELSE IF call = "unchanged"
          THEN /\ ev' = Ev("rename", newPath, "unchanged", TRUE, 0, "none", "none")
               /\ UNCHANGED pending
        ELSE IF call = "noToken"
          THEN /\ ev' = Ev("rename", newPath, "renameFailed", TRUE, 0, "none", "none")
               /\ UNCHANGED pending
        ELSE /\ Room
             /\ pending' = pending \cup
                  {RenameOp("renameDelete", oldPath, newPath, newContent, currentFile.sha)}
             /\ ev' = Ev("rename", newPath, "none", FALSE, 0, "none", "delete")
     /\ UNCHANGED <<user, repo, pat, currentFile, isDirty, editor, view, localStorage,
                    loginData, remote, fileList>>
     /\ UNCHANGED origin
     /\ Step

\* renameFileAction after deleteFile answered: createFile goes out, or the
\* failure reaches the catch of handleRenameConfirm
renameDeleteDone(op, ok) ==
  /\ Loaded /\ op \in pending /\ op.kind = "renameDelete"
  /\ IF ok /\ op.path \in DOMAIN remote /\ blobSha(remote[op.path]) = op.sha
       THEN /\ remote' = [p \in DOMAIN remote \ {op.path} |-> remote[p]]
            /\ pending' = (pending \ {op}) \cup
                            {RenameOp("renameCreate", op.path, op.to, op.content, NoSha)}
            /\ ev' = Ev("renameDeleteDone", op.path, "none", FALSE, 0, "none", "create")
     ELSE /\ pending' = pending \ {op}
          /\ ev' = Ev("renameDeleteDone", op.path, "renameFailed", TRUE, 0, "none", "none")
          /\ UNCHANGED remote
  /\ UNCHANGED <<user, repo, pat, currentFile, isDirty, editor, view, localStorage,
                 loginData, fileList, steps, origin>>

\* renameFileAction after createFile answered, and handleRenameConfirm to its
\* await of refreshFileList; the remote refuses a path that exists
renameCreateDone(op, ok) ==
  /\ Loaded /\ op \in pending /\ op.kind = "renameCreate"
  /\ IF ok /\ op.to \notin DOMAIN remote
       THEN /\ remote' = [p \in DOMAIN remote \cup {op.to} |->
                            IF p = op.to THEN op.content ELSE remote[p]]
            /\ currentFile' = [currentFile EXCEPT !.path = op.to, !.sha = blobSha(op.content)]
            /\ localStorage' = clearDraftFromStorage(localStorage, user, repo, op.path)
            /\ pending' = (pending \ {op}) \cup
                            {RenameOp("renameRefresh", op.path, op.to, <<>>, NoSha)}
            /\ ev' = Ev("renameCreateDone", op.path, "renameOk", FALSE, 0, "none", "list")
     ELSE /\ pending' = pending \ {op}
          /\ ev' = Ev("renameCreateDone", op.path, "renameFailed", TRUE, 0, "none", "none")
          /\ UNCHANGED <<remote, currentFile, localStorage>>
  /\ UNCHANGED <<user, repo, pat, isDirty, editor, view, loginData, fileList, steps, origin>>

\* handleRenameConfirm after refreshFileList returned (it never throws): the
\* dialog closes
renameRefreshDone(op, ok) ==
  /\ Loaded /\ op \in pending /\ op.kind = "renameRefresh"
  /\ pending' = pending \ {op}
  /\ fileList' = IF ok THEN Listing(remote) ELSE fileList
  /\ view' = IF view = "rename" THEN "main" ELSE view
  /\ ev' = IF ok THEN Quiet("renameRefreshDone", op.path)
           ELSE Ev("renameRefreshDone", op.path, "listFailed", TRUE, 0, "none", "none")
  /\ UNCHANGED <<user, repo, pat, currentFile, isDirty, editor, localStorage, loginData,
                 remote, steps, origin>>

(***************************************************************************)
(* The specification.                                                      *)
(***************************************************************************)
Next ==
  \/ \E u \in LoginUsers : login(u)
  \/ \E op \in pending, ok \in BOOLEAN : loginDone(op, ok)
  \/ logout
  \/ \E quota \in BOOLEAN : tick(quota)
  \/ \E b \in EditBodies : editBody(b)
  \/ \E t \in EditTags : editTags(t)
  \/ \E quota \in BOOLEAN : unload(quota)
  \/ \E p \in fileList, quota \in BOOLEAN : handleFileClick(p, quota)
  \/ \E op \in pending, ok \in BOOLEAN, accept \in BOOLEAN : openDone(op, ok, accept)
  \/ \E n \in NewNames : handleCreateNewFile(n)
  \/ handleSave
  \/ \E op \in pending, ok \in BOOLEAN : createDone(op, ok)
  \/ \E op \in pending, ok \in BOOLEAN : saveRefreshDone(op, ok)
  \/ \E op \in pending, ok \in BOOLEAN : updateDone(op, ok)
  \/ \E confirmed \in BOOLEAN : handleDeleteButtonClick(confirmed)
  \/ \E op \in pending, ok \in BOOLEAN : deleteDone(op, ok)
  \/ \E op \in pending, ok \in BOOLEAN : deleteRefreshDone(op, ok)
  \/ handleRenameClick
  \/ renameCancel
  \/ \E n \in RenameNames : handleRenameConfirm(n)
  \/ \E op \in pending, ok \in BOOLEAN : renameDeleteDone(op, ok)
  \/ \E op \in pending, ok \in BOOLEAN : renameCreateDone(op, ok)
  \/ \E op \in pending, ok \in BOOLEAN : renameRefreshDone(op, ok)

Spec == Init /\ [][Next]_vars

\* the author at work on the file the page opened: edits, flushes, saves and
\* renames, and the answers of the remote
OpenedNext ==
  \/ \E quota \in BOOLEAN : tick(quota)
  \/ \E b \in EditBodies : editBody(b)
  \/ handleSave
  \/ \E op \in pending, ok \in BOOLEAN : updateDone(op, ok)
  \/ handleRenameClick
  \/ renameCancel
  \/ \E n \in RenameNames : handleRenameConfirm(n)
  \/ \E op \in pending, ok \in BOOLEAN : renameDeleteDone(op, ok)
  \/ \E op \in pending, ok \in BOOLEAN : renameCreateDone(op, ok)
  \/ \E op \in pending, ok \in BOOLEAN : renameRefreshDone(op, ok)

SpecOpened == InitOpened /\ [][OpenedNext]_vars

\* the same program started on a storage with a corrupted draft entry
SpecCorrupted == InitCorrupted /\ [][Next]_vars

(***************************************************************************)
(* The draft store alone (utils.ts): sessions of several accounts and      *)
(* repositories save, load and clear drafts in one localStorage.           *)
(***************************************************************************)
\* account and repository names: GitHub allows "_" in a repository name and
\* in the name of a managed user account, and login() takes what is typed
Accounts == {<<"o">>, <<"o", "_", "r">>}
Repos == {<<"r">>, <<"r", "_", "r">>}

StoreInit ==
  /\ user \in Accounts /\ repo \in Repos /\ pat = LoginPat
  /\ currentFile = NoFile
  /\ isDirty = FALSE
  /\ editor = EmptyEditor
  /\ view = "main"
  /\ localStorage = [k \in {} |-> Draft(<<>>, <<>>)]
  /\ loginData = [user |-> user, repo |-> repo, pat |-> pat]
  /\ remote = [p \in {PathA, PathB} |-> IF p = PathA THEN ContentA ELSE ContentB]
  /\ fileList = {PathA, PathB}
  /\ pending = {}
  /\ steps = 0
  /\ origin = NoPath
  /\ ev = Quiet("init", NoPath)

\* logout and the login of another session: state.user, state.repo of login()
sessionSwitched(u, r) ==
  /\ <<u, r>> # <<user, repo>>
  /\ user' = u /\ repo' = r
  /\ loginData' = [user |-> u, repo |-> r, pat |-> pat]
  /\ ev' = Quiet("login", NoPath)
  /\ UNCHANGED <<pat, currentFile, isDirty, editor, view, localStorage, remote,
                 fileList, pending, origin>>
  /\ Step

\* saveDraftToStorage(state, path, metadata, body)
draftSaved(path, body) ==
  /\ localStorage' = saveDraftToStorage(localStorage, user, repo, path, <<>>, body, TRUE).ls
  /\ ev' = Quiet("saveDraftToStorage", path)
  /\ UNCHANGED <<user, repo, pat, currentFile, isDirty, editor, view, loginData, remote,
                 fileList, pending, origin>>
  /\ Step

\* loadDraftFromStorage(state, path)
draftLoaded(path) ==
  LET l == loadDraftFromStorage(localStorage, user, repo, path)
  IN /\ localStorage' = l.ls
     /\ ev' = Ev("loadDraftFromStorage", path, IF l.found THEN "draftFound" ELSE "none",
                 l.threw, 0, "none", "none")
     /\ UNCHANGED <<user, repo, pat, currentFile, isDirty, editor, view, loginData,
                    remote, fileList, pending, origin>>
     /\ Step

\* clearDraftFromStorage(state, path)
draftCleared(path) ==
  /\ localStorage' = clearDraftFromStorage(localStorage, user, repo, path)
  /\ ev' = Quiet("clearDraftFromStorage", path)
  /\ UNCHANGED <<user, repo, pat, currentFile, isDirty, editor, view, loginData, remote,
                 fileList, pending, origin>>
  /\ Step

StoreNext ==
  \/ \E u \in Accounts, r \in Repos : sessionSwitched(u, r)
  \/ \E p \in {PathA, PathB}, b \in {<<"x">>, <<"y">>} : draftSaved(p, b)
  \/ \E p \in {PathA, PathB} : draftLoaded(p)
  \/ \E p \in {PathA, PathB} : draftCleared(p)

StoreSpec == StoreInit /\ [][StoreNext]_vars

(***************************************************************************)
(* The content codec alone (utils.ts): the form's fields are serialised as *)
(* handleSave serialises them, and a file's content is parsed and          *)
(* serialised again as loadDraft does with the remote content.             *)
(***************************************************************************)
\* what the form can hold: a title with the delimiter in it, tags with blanks
\* around the commas or with an apostrophe, a body with blank ends or with a
\* line that is the delimiter
CodecEditors ==
  {[EmptyEditor EXCEPT !.title = t, !.published = p, !.tags = g, !.body = b] :
     t \in {<<"t">>, <<"a", "---", "b">>},
     p \in {<<>>, Date1},
     g \in {<<>>, <<"a", ",", " ", "b", " ", ",", "c">>, <<"a", "'", "b">>},
     b \in {<<>>, <<"x">>, <<" ", "x", "\n">>, <<"x", "\n", "---", "\n", "y">>}}

CodecInit ==
  /\ user = <<>> /\ repo = <<>> /\ pat = <<>>
  /\ currentFile = NoFile
  /\ isDirty = FALSE
  /\ editor \in CodecEditors
  /\ view = "main"
  /\ localStorage = [k \in {} |-> Draft(<<>>, <<>>)]
  /\ loginData = NoLogin
  /\ remote \in {[p \in {PathA} |-> c] : c \in {ContentA, ContentB}}
  /\ fileList = {}
  /\ pending = {}
  /\ steps = 0
  /\ origin = NoPath
  /\ ev = Quiet("init", NoPath)

\* createFullMarkdown(getEditorMetadata(), vditorInstance.getValue())
serialize ==
  /\ remote' = [p \in {PathA} |->
                  createFullMarkdown(getEditorMetadata(editor), editor.body)]
  /\ ev' = Quiet("serialize", PathA)
  /\ UNCHANGED <<user, repo, pat, currentFile, isDirty, editor, view, localStorage,
                 loginData, fileList, pending, origin>>
  /\ Step

\* createFullMarkdown(originalContent.metadata, originalContent.body) of the
\* parsed content
reserialize ==
  LET originalContent == parseContent(remote[PathA])
  IN /\ remote' = [p \in {PathA} |->
                     createFullMarkdown(originalContent.metadata, originalContent.body)]
     /\ ev' = Quiet("reserialize", PathA)
     /\ UNCHANGED <<user, repo, pat, currentFile, isDirty, editor, view, localStorage,
                    loginData, fileList, pending, origin>>
     /\ Step

CodecNext == serialize \/ reserialize

CodecSpec == CodecInit /\ [][CodecNext]_vars


(***************************************************************************)
(* Properties.  A step is recognised by what it leaves in ev'; the         *)
(* unprimed variables are the state the handler found.                     *)
(***************************************************************************)
\* the key of path's draft in the running session
KeyOf(path) == getDraftKey(user, repo, path)

\* a draft is stored for path, in the store ls
HasDraftIn(ls, path) == HasItem(ls, KeyOf(path))

\* a draft is stored for path
HasDraft(path) == HasDraftIn(localStorage, path)

\* the draft stored for path
DraftOf(path) == localStorage[KeyOf(path)]

\* the document in the editor
EditorDocument == Document(getEditorMetadata(editor), editor.body)

\* the fields of the remote document at path, as the editor shows a document
RemoteShown(path) ==
  populateEditor(parsed[remote[path]].metadata, parsed[remote[path]].body)

\* the stored draft for path and the remote content at path serialise, trimmed,
\* to the same text
DraftSame(path) ==
  Trim(fullMarkdown[DraftOf(path)]) = Trim(fullMarkdown[parsed[remote[path]]])

\* this step completes an Open of path whose remote read succeeded
OpenCompleted(path) == ev'.op = "openDone" /\ ev'.path = path /\ ~ev'.error

\* this step is a flush: a timer tick or the page's unload
Flushed == ev'.op \in {"tick", "unload"}

\* C1: when an Open of a path completes, the stored draft for the path differs
\* from the remote content just read and the user accepts the prompt, the editor
\* shows the draft's metadata and body and the file is Dirty.
C1_AcceptedDraftIsShownAndDirty ==
  [][\A p \in DOMAIN remote :
       (OpenCompleted(p) /\ HasDraft(p) /\ ~DraftSame(p) /\ ev'.answer = "yes")
         => /\ editor' = populateEditor(DraftOf(p).metadata, DraftOf(p).body)
            /\ isDirty']_vars

\* C2: an Open of a path whose stored draft differs from the remote content just
\* read prompts exactly once; if the user declines, the draft of the path is
\* deleted, the editor shows the remote content and the file is Clean.
C2_DifferingDraftPromptsOnce ==
  [][\A p \in DOMAIN remote :
       (OpenCompleted(p) /\ HasDraft(p) /\ ~DraftSame(p))
         => /\ ev'.prompts = 1
            /\ ev'.answer = "no"
                 => (~HasDraftIn(localStorage', p) /\ editor' = RemoteShown(p) /\ ~isDirty')]_vars

\* C3: an Open of a path whose stored draft serialises, trimmed, to the text of
\* the serialised remote content deletes the draft, shows the remote content,
\* leaves the file Clean and never prompts.
C3_IdenticalDraftIsDroppedSilently ==
  [][\A p \in DOMAIN remote :
       (OpenCompleted(p) /\ HasDraft(p) /\ DraftSame(p))
         => /\ ~HasDraftIn(localStorage', p)
            /\ editor' = RemoteShown(p)
            /\ ~isDirty'
            /\ ev'.prompts = 0]_vars

\* C4: an Open of a path with no stored draft never prompts, shows exactly the
\* remote content, leaves the file Clean and creates no draft.
C4_NoDraftNoPrompt ==
  [][\A p \in DOMAIN remote :
       (OpenCompleted(p) /\ ~HasDraft(p))
         => /\ ev'.prompts = 0
            /\ editor' = RemoteShown(p)
            /\ ~isDirty'
            /\ DOMAIN localStorage' \subseteq DOMAIN localStorage]_vars

\* C5: a flush (tick or unload) of a Dirty active file whose storage write
\* succeeds stores under the active path's key a draft equal to the document in
\* the editor and leaves the file Clean; an edit of an active file, also one
\* after that flush, leaves the file Dirty.
C5_FlushStoresDocumentAndCleans ==
  [][/\ (Flushed /\ currentFile.path # NoPath /\ isDirty /\ ~ev'.error)
          => /\ HasDraftIn(localStorage', currentFile.path)
             /\ localStorage'[KeyOf(currentFile.path)] = EditorDocument
             /\ ~isDirty'
     /\ (ev'.op = "edit" /\ currentFile.path # NoPath) => isDirty']_vars

\* C5 witness: a draft of the active file is stored, and an edit after it has
\* made the file Dirty again
C5_EditAfterFlush ==
  /\ ev.op = "edit" /\ isDirty
  /\ HasDraft(currentFile.path) /\ DraftOf(currentFile.path) # EditorDocument

\* C6: when a Dirty active file is replaced by another file, through Open of
\* another path or through Create, a draft holding its document has been
\* written under its key, or the failure of that write has been reported.
C6_DirtyFileIsFlushedBeforeReplaced ==
  [][(/\ ev'.op \in {"click", "create"}
      /\ currentFile.path # NoPath /\ isDirty
      /\ currentFile'.path # currentFile.path)
        => \/ ev'.error
           \/ /\ HasDraftIn(localStorage', currentFile.path)
              /\ localStorage'[KeyOf(currentFile.path)] = EditorDocument]_vars

\* C7: a draft is stored under a path's key only while the editor holds the
\* document of that path: a flush never stores another file's document under
\* the key of a path whose Open still awaits its remote read.
C7_DraftHoldsItsOwnFile ==
  [][(ev'.notice = "draftSaved") => origin = currentFile.path]_vars

\* C8: the result of an Open's read or a Save's write that arrives when another
\* file is active changes neither the version token, the new flag, the
\* document shown, the dirty flag nor the stored draft of the active file.
C8_LateResultIsNoOp ==
  [][(/\ ev'.op \in {"openDone", "saveDone"}
      /\ currentFile.path # NoPath
      /\ ev'.path # currentFile.path)
        => /\ currentFile' = currentFile
           /\ editor' = editor
           /\ isDirty' = isDirty
           /\ HasDraftIn(localStorage', currentFile.path) = HasDraft(currentFile.path)
           /\ HasDraft(currentFile.path)
                => localStorage'[KeyOf(currentFile.path)] = DraftOf(currentFile.path)]_vars

\* C9: a Save of a file the remote does not hold (a file made by Create) issues
\* a create, never an update; when the create has succeeded the file is the
\* active one, is not flagged new, holds the token the create returned, and no
\* draft remains under its key.
C9_CreateThenSave ==
  [][/\ (ev'.op = "save" /\ ev'.call # "none" /\ currentFile.path \notin DOMAIN remote)
          => ev'.call = "create"
     /\ \A op \in pending :
          (ev'.op = "saveDone" /\ op.kind = "saveRefresh" /\ op \notin pending')
            => /\ currentFile' = [path |-> op.path, sha |-> op.sha, isNew |-> FALSE]
               /\ ~HasDraftIn(localStorage', op.path)]_vars

\* C10: a Save of an active file that is not flagged new and holds no version
\* token reports an error, issues no remote request and leaves the stored
\* drafts, the dirty flag and the active file as they were.
C10_SaveWithoutTokenFailsFirst ==
  [][(/\ ev'.op = "save"
      /\ currentFile.path # NoPath /\ ~currentFile.isNew /\ currentFile.sha = NoSha)
        => /\ ev'.error /\ ev'.call = "none"
           /\ pending' = pending /\ remote' = remote
           /\ localStorage' = localStorage
           /\ isDirty' = isDirty
           /\ currentFile' = currentFile]_vars

\* C10 witness: Save was pressed on a file whose Open has not yet returned a
\* token, and was refused
C10_SaveRefused ==
  /\ ev.op = "save" /\ ev.notice = "saveFailed" /\ ev.call = "none"
  /\ currentFile.path # NoPath /\ ~currentFile.isNew /\ currentFile.sha = NoSha

\* C11: the file is Dirty exactly while the document in the editor has changed
\* since the last load, save or flush; in particular, when a Save of the active
\* file has succeeded and the editor holds a document that serialises to
\* another text than the one written, the file is Dirty.
C11_EditDuringSaveStaysDirty ==
  [][\A op \in pending :
       (/\ ev'.op = "saveDone" /\ ~ev'.error
        /\ op.kind \in {"update", "saveRefresh"} /\ op \notin pending'
        /\ op.path = currentFile.path
        /\ fullMarkdown[EditorDocument] # op.content)
         => isDirty']_vars

\* C12: whenever no file is active, the file is not Dirty.
C12_NoFileIsClean == currentFile.path = NoPath => ~isDirty

\* C13: a flush (tick or unload) of a Dirty active file either stores the
\* editor's document and leaves the file Clean, or its storage write failed:
\* then the failure is shown as an error status, the handler returns normally,
\* the stored drafts are as they were, the file stays Dirty and, after a tick,
\* the page and its timer live on, so that the next flush tries again.
C13_FailedFlushIsReportedAndRetried ==
  [][(Flushed /\ currentFile.path # NoPath /\ isDirty)
       => \/ /\ ~ev'.error /\ ev'.notice = "draftSaved"
             /\ HasDraftIn(localStorage', currentFile.path)
             /\ localStorage'[KeyOf(currentFile.path)] = EditorDocument
             /\ ~isDirty'
          \/ /\ ev'.error /\ ev'.notice = "draftFailed"
             /\ localStorage' = localStorage
             /\ isDirty'
             /\ ev'.op = "tick" => view' = view]_vars

\* C13 witness: a tick's write failed; the file is still Dirty and has no draft
C13_FlushFailed ==
  /\ ev.op = "tick" /\ ev.error /\ ev.notice = "draftFailed"
  /\ currentFile.path # NoPath /\ isDirty /\ ~HasDraft(currentFile.path)

\* C14: a flush (tick or unload) that runs when no file is active or when the
\* file is not Dirty writes, overwrites and deletes no draft, and leaves the
\* active file, the document in the editor and the dirty flag as they were.
C14_IdleFlushChangesNothing ==
  [][(Flushed /\ (currentFile.path = NoPath \/ ~isDirty))
       => /\ localStorage' = localStorage
          /\ currentFile' = currentFile
          /\ editor' = editor
          /\ isDirty' = isDirty
          /\ ev'.notice = "none"]_vars

\* C14 witness: the timer ticked on an active file that was not Dirty, while
\* the editor held a document no draft holds
C14_TickOnCleanFile ==
  /\ ev.op = "tick" /\ ev.notice = "none"
  /\ currentFile.path # NoPath /\ ~isDirty /\ ~HasDraft(currentFile.path)

\* C15: a Delete pressed on an active file issues a remote delete only when the
\* file is not flagged new, the user confirmed and a version token is held, and
\* the request then names the active path and that token; on a file flagged new
\* it issues no request, changes nothing on the remote and leaves no file
\* active; when the user declines or no token is held, the active file, the
\* remote and the requests in flight are as they were.
C15_DeleteIsGuarded ==
  [][(ev'.op = "delete" /\ currentFile.path # NoPath)
       => /\ (ev'.call # "none" \/ pending' # pending)
               => /\ ev'.call = "delete"
                  /\ ~currentFile.isNew /\ ev'.answer = "yes" /\ currentFile.sha # NoSha
                  /\ pending' = pending \cup
                                  {Op("delete", currentFile.path, <<>>, currentFile.sha)}
          /\ currentFile.isNew
               => /\ ev'.call = "none" /\ ev'.prompts = 0
                  /\ pending' = pending
                  /\ currentFile' = NoFile
          /\ (~currentFile.isNew /\ (ev'.answer = "no" \/ currentFile.sha = NoSha))
               => /\ ev'.call = "none"
                  /\ pending' = pending
                  /\ currentFile' = currentFile
          /\ remote' = remote]_vars

\* C15 witness: the user confirmed the Delete of a file whose Open has not yet
\* returned a token, and no request went out
C15_DeleteRefused ==
  /\ ev.op = "delete" /\ ev.answer = "yes" /\ ev.call = "none" /\ ev.error
  /\ currentFile.path # NoPath /\ ~currentFile.isNew /\ currentFile.sha = NoSha

\* C16: when a Delete of the active file has completed, as the remote delete of
\* a persisted file or as the cancel of a file flagged new, no draft is stored
\* under the file's key and no file is active.
C16_DeletedFileLeavesNoDraft ==
  [][(\/ ev'.op = "delete" /\ ev'.notice = "newCancelled"
      \/ ev'.op = "deleteDone" /\ ~ev'.error /\ ev'.path = currentFile.path)
       => /\ ~HasDraftIn(localStorage', ev'.path)
          /\ currentFile'.path = NoPath]_vars

\* C17: a Rename sends a request (the delete of the old path, with the held
\* token) only when a file is active and not flagged new, a token is held, the
\* trimmed new name is not empty and the normalised new filename is not the
\* current one; the Rename button on no file or on a new file, and a confirm
\* with any of the other conditions unmet, send nothing; and no click or
\* confirm changes the remote, the active file or the stored drafts.
C17_RenameIsGuarded ==
  [][/\ (ev'.op = "renameClick" /\ (currentFile.path = NoPath \/ currentFile.isNew))
          => ev'.error /\ view' = view
     /\ ev'.op \in {"renameClick", "rename"}
          => /\ remote' = remote
             /\ currentFile' = currentFile
             /\ localStorage' = localStorage
     /\ ev'.op = "renameClick" => (ev'.call = "none" /\ pending' = pending)
     /\ ev'.op = "rename"
          => /\ (ev'.call # "none" \/ pending' # pending)
                  => /\ ev'.call = "delete"
                     /\ currentFile.path # NoPath /\ ~currentFile.isNew
                     /\ currentFile.sha # NoSha
                     /\ ev'.path # NoPath
                     /\ Basename(ev'.path) # Basename(currentFile.path)
                     /\ pending' = pending \cup
                          {RenameOp("renameDelete", currentFile.path, ev'.path,
                                    fullMarkdown[EditorDocument], currentFile.sha)}
             /\ (\/ currentFile.path = NoPath \/ currentFile.isNew
                 \/ currentFile.sha = NoSha
                 \/ ev'.path = NoPath \/ ev'.path = currentFile.path)
                  => (ev'.call = "none" /\ pending' = pending)]_vars

\* C17 witness: the dialog is open on a file that holds a token, and a confirm
\* with the file's own name was rejected
C17_UnchangedNameRejected ==
  /\ ev.op = "rename" /\ ev.notice = "unchanged" /\ ev.path = currentFile.path
  /\ view = "rename" /\ currentFile.sha # NoSha

\* C18: when the create of a Rename fails after its delete succeeded, the
\* status shown is not the one shown for a failure of the delete ("renameFailed":
\* the rename failed, with the remote's reason).
C18_CreateFailureHasItsOwnMessage ==
  [][(ev'.op = "renameCreateDone" /\ ev'.error) => ev'.notice # "renameFailed"]_vars

\* the entry of the triple (u, r, path) in the store ls: what a load for the
\* triple returns, <<>> for none
Entry(ls, u, r, path) ==
  IF HasItem(ls, getDraftKey(u, r, path)) THEN <<ls[getDraftKey(u, r, path)]>> ELSE <<>>

\* C19: a save, a load or a clear issued in the session of one account and
\* repository leaves, for every path, the entry of every other account or
\* repository as it was: no draft of another session appears (to be returned
\* by its load), is overwritten or is removed, as distinct triples have
\* distinct keys.
C19_SessionsDoNotShareDrafts ==
  [][\A u \in Accounts, r \in Repos, p \in {PathA, PathB} :
       (/\ ev'.op \in {"saveDraftToStorage", "loadDraftFromStorage", "clearDraftFromStorage"}
        /\ <<u, r>> # <<user, repo>>)
         => Entry(localStorage', u, r, p) = Entry(localStorage, u, r, p)]_vars

\* a corrupted entry is stored for path
HasCorrupted(path) == HasDraft(path) /\ DraftOf(path) = Corrupted

\* C20: an Open of a path whose stored draft is corrupted, once its remote read
\* succeeded, removes the entry, shows the error once and no prompt, shows the
\* remote content and leaves the file Clean; no draft is then stored for the
\* path, so a later Open finds none.
C20_CorruptedDraftIsDroppedAndReported ==
  [][\A p \in DOMAIN remote :
       (/\ ev'.op = "openDone" /\ ev'.path = p /\ ev'.notice # "loadFailed"
        /\ HasCorrupted(p))
         => /\ ev'.error /\ ev'.notice = "draftCorrupted"
            /\ ev'.prompts = 0
            /\ ~HasDraftIn(localStorage', p)
            /\ editor' = RemoteShown(p)
            /\ ~isDirty']_vars

\* the trimmed, non-empty pieces of a comma-delimited string, in order
TrimmedTags(s) == SelectSeq(MapTrim(Split(s, Comma)), NonEmpty)

\* C21: the body parsed from a serialised document is, trimmed, the trimmed
\* body that was serialised, whatever the metadata and the body hold: for the
\* form's fields, and for a parsed content serialised again.
C21_BodySurvivesRoundTrip ==
  [][/\ ev'.op = "serialize"
          => Trim(parseContent(remote'[PathA]).body) = Trim(editor.body)
     /\ ev'.op = "reserialize"
          => Trim(parseContent(remote'[PathA]).body)
               = Trim(parseContent(remote[PathA]).body)]_vars

\* C22: the tags parsed from a serialised document are the trimmed, non-empty
\* pieces of the tags string that was serialised, in order; a tags sequence is
\* serialised as that sequence and missing tags as the empty sequence.
C22_TagsAreNormalized ==
  [][/\ ev'.op = "serialize"
          => Get(parseContent(remote'[PathA]).metadata, K_tags)
               = Arr(TrimmedTags(editor.tags))
     /\ ev'.op = "reserialize"
          => Get(parseContent(remote'[PathA]).metadata, K_tags)
               = IF Get(parseContent(remote[PathA]).metadata, K_tags).t = "arr"
                   THEN Get(parseContent(remote[PathA]).metadata, K_tags)
                 ELSE Arr(<<>>)]_vars

\* C23: the session record is written only at the completion of a login whose
\* listing succeeded, and only there the main view is entered from the login
\* view; a login with an empty field and a login whose listing failed report
\* an error, write no record and stay in the login view; logout removes the
\* record, empties account, repository and credential in memory and leaves no
\* file active.
C23_SessionRecordFollowsLogin ==
  [][/\ (loginData' # loginData /\ loginData' # NoLogin)
          => (ev'.op = "loginDone" /\ ~ev'.error)
     /\ (view = "login" /\ view' = "main")
          => (ev'.op = "loginDone" /\ ~ev'.error /\ loginData' # NoLogin)
     /\ (ev'.op = "login" /\ (user' = <<>> \/ repo' = <<>> \/ pat' = <<>>))
          => (ev'.error /\ ev'.call = "none" /\ pending' = pending)
     /\ (ev'.op \in {"login", "loginDone"} /\ ev'.error)
          => (loginData' = loginData /\ view' = view)
     /\ ev'.op = "logout"
          => /\ loginData' = NoLogin
             /\ user' = <<>> /\ repo' = <<>> /\ pat' = <<>>
             /\ currentFile' = NoFile
             /\ view' = "login"]_vars

\* C23 witness: the listing of a login failed; no record is stored and the
\* login view is shown
C23_ProbeFailed ==
  /\ ev.op = "loginDone" /\ ev.error
  /\ loginData = NoLogin /\ view = "login" /\ pat # <<>>

\* C24: when a Rename of the active file from oldPath to newPath has succeeded,
\* the remote holds no file at oldPath and holds at newPath the serialization
\* of the document in the editor; the active file is newPath, with the token
\* the create returned; no draft is stored under oldPath's key.
C24_RenameMovesTheDocument ==
  [][\A op \in pending :
       (/\ ev'.op = "renameCreateDone" /\ ~ev'.error
        /\ op.kind = "renameCreate" /\ op \notin pending')
         => /\ op.path \notin DOMAIN remote'
            /\ op.to \in DOMAIN remote'
            /\ remote'[op.to] =
                 fullMarkdown[Document(getEditorMetadata(editor'), editor'.body)]
            /\ currentFile'.path = op.to
            /\ currentFile'.sha = blobSha(remote'[op.to])
            /\ ~HasDraftIn(localStorage', op.path)]_vars

\* C25: when the create or the update a Save issued has failed, the failure is
\* shown as an error status, and the stored drafts, the held token, the new flag
\* and the dirty flag are as they were: the file is not made Clean and its
\* draft is not cleared.
C25_FailedSaveChangesNothing ==
  [][(ev'.op \in {"createDone", "saveDone"} /\ ev'.error)
       => /\ ev'.notice = "saveFailed"
          /\ localStorage' = localStorage
          /\ currentFile' = currentFile
          /\ isDirty' = isDirty
          /\ remote' = remote]_vars

\* C25 witness: the update of a Save of the Dirty active file has failed
C25_SaveFailedOnDirtyFile ==
  /\ ev.op = "saveDone" /\ ev.error /\ ev.path = currentFile.path
  /\ isDirty /\ ~currentFile.isNew /\ currentFile.sha # NoSha

\* C26: a successful Save leaves in the active file the token of the content
\* it wrote, so that a Save of an existing file that the remote holds, pressed
\* while no request is in flight, sends the token of the remote file's content
\* and cannot be refused as stale.
C26_SaveSendsTheFreshToken ==
  [][/\ \A op \in pending :
          (/\ ev'.op = "saveDone" /\ ~ev'.error
           /\ op.kind \in {"update", "saveRefresh"} /\ op \notin pending')
            => currentFile'.sha = blobSha(op.content)
     /\ (/\ ev'.op = "save" /\ ev'.call = "update"
         /\ pending = {}
         /\ currentFile.path \in DOMAIN remote)
          => \A op \in pending' :
               op.path = currentFile.path /\ op.sha = blobSha(remote[op.path])]_vars

\* no create, update, delete or rename is awaiting its answer: the requests in
\* flight are reads and listings
NoWriteInFlight ==
  \A q \in pending : q.kind \in {"open", "login", "deleteRefresh", "renameRefresh"}

\* C27: a request sent by Save, Delete or Rename while no other write is in
\* flight fits the file it targets: an update or a delete of a file the remote
\* holds carries the token of that file's content, and a create goes to a path
\* the remote does not hold; also while the read of an Open is awaited.
C27_RequestsFitTheirFile ==
  [][\A op \in pending' \ pending :
       NoWriteInFlight
         => /\ (op.kind \in {"update", "delete", "renameDelete"} /\ op.path \in DOMAIN remote)
                 => op.sha = blobSha(remote[op.path])
            /\ op.kind = "create" => op.path \notin DOMAIN remote]_vars

=============================================================================
